---- MODULE Spec2Model ----
(***************************************************************************)
(* Admin backend of the TrueNumber game: the User model                    *)
(* (utilisateur.modele) and the admin controller (admin.controlleur.ts).   *)
(*                                                                         *)
(* The document store is modelled by the two collections `users` and       *)
(* `games`.  A run handles a bounded number of requests, in flight at the  *)
(* same time; request k is the k-th to start.  A handler is cut into steps *)
(* only at the awaits where another request can touch the store between    *)
(* two of its store calls (createUser: findOne, then save; getAllGames:    *)
(* the two reads of Promise.all).                                          *)
(***************************************************************************)
EXTENDS Integers, Sequences, FiniteSets, TLC

\* ---------------------------------------------------------------- bounds
MaxUsers == 3       \* ObjectIds the User collection hands out
NumRequests == 2    \* requests of a run of the account operations
MaxGames == 2       \* game documents ever recorded
MaxClock == 2       \* last value of Date.now

UserIds == 1..MaxUsers

VARIABLES
    users,      \* User collection: _id -> document
    games,      \* Game collection: set of documents
    nextId,     \* next ObjectId of the User collection
    clock,      \* Date.now
    pc,         \* per request: where its handler stands
    req,        \* per request: its input and the handler's locals
    res         \* per request: the response sent

vars == <<users, games, nextId, clock, pc, req, res>>

Requests == DOMAIN pc

Min(a, b) == IF a <= b THEN a ELSE b
Max(a, b) == IF a >= b THEN a ELSE b

\* ------------------------------------------------------------ User model
Roles == {"user", "admin"}
RequiredPaths == {"firstName", "lastName", "email", "phone", "password"}
SchemaPaths == RequiredPaths \cup {"role", "points", "createdAt"}

\* A stored or submitted credential.  bcrypt.hash is one-way and salted: its
\* output is never a string a caller can submit, and keeps only what
\* bcrypt.compare needs, the plaintext it was computed from.
Plain(s) == [hashed |-> FALSE, text |-> s]

BcryptHash(s) == [hashed |-> TRUE, text |-> s]

BcryptCompare(candidate, stored) == stored.hashed /\ stored.text = candidate

comparePassword(user, candidatePassword) == BcryptCompare(candidatePassword, user.password)

\* UserSchema.pre('save'): a new document's password is always modified.
PreSave(doc) == [doc EXCEPT !.password = BcryptHash(doc.password.text)]

\* Mongoose's validation on save: required strings are non-empty, role is in
\* the enum.
ValidateOnSave(doc) ==
    /\ \A p \in RequiredPaths \ {"password"} : doc[p] # ""
    /\ doc.password.text # ""
    /\ doc.role \in Roles

\* The unique index on email.
EmailTaken(email, exceptId) ==
    \E i \in DOMAIN users : i # exceptId /\ users[i].email = email

\* ------------------------------------------------------------- ObjectIds
\* An id travels as a 24-digit hex string; the store casts it to an ObjectId
\* whatever the case of its digits, and ObjectId.toString() writes lower case.
IdForms == {"lower", "upper"}
IdString(n, form) == [oid |-> n, form |-> form]
MalformedId == [oid |-> 0, form |-> "malformed"]
ObjectIdToString(n) == IdString(n, "lower")
CanCast(s) == s.form \in IdForms
CastObjectId(s) == s.oid

\* ------------------------------------------------------------- responses
ApiResponse(status, message, data) == [status |-> status, message |-> message, data |-> data]
NoData == {}
NoRequest == [op |-> "none"]
NoResponse == [status |-> 0, message |-> "", data |-> NoData]

Has(body, k) == k \in DOMAIN body
\* !body.k in JavaScript: the field is missing or the empty string.
Falsy(body, k) == ~Has(body, k) \/ body[k] = ""
Without(obj, k) == [f \in DOMAIN obj \ {k} |-> obj[f]]

NewUser(body, id, now) ==
    [_id |-> id,
     firstName |-> body.firstName,
     lastName |-> body.lastName,
     email |-> body.email,
     phone |-> body.phone,
     password |-> Plain(body.password),
     role |-> IF Falsy(body, "role") THEN "user" ELSE body.role,
     points |-> 0,
     createdAt |-> now]

\* The store starts with the administrator on whose behalf the admin routes
\* are called, saved through the model like every account.
FirstAdmin ==
    PreSave(NewUser([firstName |-> "Ann", lastName |-> "Lee", email |-> "a@x", phone |-> "555",
                     password |-> "pw1", role |-> "admin"], 1, 1))

InitStore ==
    /\ users = (1 :> FirstAdmin)
    /\ games = {}
    /\ nextId = 2
    /\ clock = 1

InitRequests(n) ==
    /\ pc = [r \in 1..n |-> "new"]
    /\ req = [r \in 1..n |-> NoRequest]
    /\ res = [r \in 1..n |-> NoResponse]

Init == InitStore /\ InitRequests(NumRequests)

\* The game listing starts with a registered player next to the administrator,
\* and serves one client, request after request, while the game sessions go on.
FirstPlayer ==
    PreSave(NewUser([firstName |-> "Bob", lastName |-> "Ray", email |-> "b@x", phone |-> "556",
                     password |-> "pw2"], 2, 1))

InitGames ==
    /\ users = (1 :> FirstAdmin) @@ (2 :> FirstPlayer)
    /\ games = {}
    /\ nextId = 3
    /\ clock = 1
    /\ InitRequests(1)

\* Request r arrives: the requests before it have arrived.
Arrives(r) == pc[r] = "new" /\ \A q \in Requests : q < r => pc[q] # "new"

Respond(r, response) ==
    /\ res' = [res EXCEPT ![r] = response]
    /\ pc' = [pc EXCEPT ![r] = "done"]

\* The response of request r is with its client; the next request takes its
\* place.
NextRequest(r) ==
    /\ pc[r] = "done"
    /\ pc' = [pc EXCEPT ![r] = "new"]
    /\ req' = [req EXCEPT ![r] = NoRequest]
    /\ res' = [res EXCEPT ![r] = NoResponse]
    /\ UNCHANGED <<users, games, nextId, clock>>

\* Date.now moves on.
Tick ==
    /\ clock < MaxClock
    /\ clock' = clock + 1
    /\ UNCHANGED <<users, games, nextId, pc, req, res>>

\* ------------------------------------------------------------ createUser
\* Lines 99-114: the validation and User.findOne({ email }).
CreateUserFind(r, body) ==
    /\ Arrives(r)
    /\ req' = [req EXCEPT ![r] = [op |-> "createUser", body |-> body]]
    /\ IF \E k \in RequiredPaths : Falsy(body, k)
       THEN Respond(r, ApiResponse(400, "champs obligatoires", NoData))
       ELSE IF EmailTaken(body.email, 0)
       THEN Respond(r, ApiResponse(400, "email existe deja", NoData))
       ELSE /\ nextId + Cardinality({q \in Requests : pc[q] = "save"}) <= MaxUsers
            /\ pc' = [pc EXCEPT ![r] = "save"]
            /\ res' = res
    /\ UNCHANGED <<users, games, nextId, clock>>

\* Lines 116-140: new User(...), user.save() and the response.  save()
\* validates, runs the pre-save hook and inserts; the insert is refused by
\* the unique index when the email is taken by now.
CreateUserSave(r) ==
    /\ pc[r] = "save"
    /\ LET user == NewUser(req[r].body, nextId, clock)
           saved == PreSave(user)
       IN  /\ nextId' = nextId + 1
           /\ IF ValidateOnSave(user) /\ ~EmailTaken(user.email, 0)
              THEN /\ users' = (nextId :> saved) @@ users
                   /\ Respond(r, ApiResponse(201, "utilisateur cree", {Without(saved, "password")}))
              ELSE /\ users' = users
                   /\ Respond(r, ApiResponse(500, "erreur creation", NoData))
    /\ UNCHANGED <<games, clock, req>>

\* ----------------------------------------------------------- getAllUsers
\* A find without the projection.
ProjectionDropped(doc) == doc

\* User.find({}, { password: 0 })
Projection(doc) == Without(doc, "password")

\* Lines 80-92.
GetAllUsers(r) ==
    /\ Arrives(r)
    /\ req' = [req EXCEPT ![r] = [op |-> "getAllUsers"]]
    /\ Respond(r, ApiResponse(200, "utilisateurs recuperes", {Projection(users[i]) : i \in DOMAIN users}))
    /\ UNCHANGED <<users, games, nextId, clock>>

\* ------------------------------------------------------------ updateUser
\* Lines 151-154: if (updateData.password) delete updateData.password.
StripPassword(updateData) ==
    IF ~Falsy(updateData, "password") THEN Without(updateData, "password") ELSE updateData

\* Mongoose's cast of an update document: the top-level keys that are schema
\* paths are a $set, next to the keys of an explicit $set operator.
CastUpdate(updateData) ==
    LET top == [k \in DOMAIN updateData \cap SchemaPaths |-> updateData[k]]
        op == IF Has(updateData, "$set")
              THEN [k \in DOMAIN updateData["$set"] \cap SchemaPaths |-> updateData["$set"][k]]
              ELSE top
    IN  top @@ op

\* A string written to the password path is stored as it is: an update query
\* runs neither the schema's validators nor the pre-save hook.
CastPath(k, v) == IF k = "password" THEN Plain(v) ELSE v

ApplyUpdate(doc, set) ==
    [k \in DOMAIN doc |-> IF k \in DOMAIN set THEN CastPath(k, set[k]) ELSE doc[k]]

\* select: '-password'
Select(doc) == Without(doc, "password")

\* Lines 146-177: User.findByIdAndUpdate(id, updateData, { new: true, select: '-password' }),
\* one atomic store call.
UpdateUser(r, id, body) ==
    /\ Arrives(r)
    /\ req' = [req EXCEPT ![r] = [op |-> "updateUser", id |-> id, body |-> body]]
    /\ LET updateData == StripPassword(body)
           oid == CastObjectId(id)
       IN  IF ~CanCast(id)
           THEN /\ users' = users
                /\ Respond(r, ApiResponse(500, "erreur mise a jour", NoData))
           ELSE IF oid \notin DOMAIN users
           THEN /\ users' = users
                /\ Respond(r, ApiResponse(404, "utilisateur non trouve", NoData))
           ELSE LET doc == ApplyUpdate(users[oid], CastUpdate(updateData))
                IN  IF EmailTaken(doc.email, oid)
                    THEN /\ users' = users
                         /\ Respond(r, ApiResponse(500, "erreur mise a jour", NoData))
                    ELSE /\ users' = [users EXCEPT ![oid] = doc]
                         /\ Respond(r, ApiResponse(200, "utilisateur mis a jour", {Select(doc)}))
    /\ UNCHANGED <<games, nextId, clock>>

\* ------------------------------------------------------------ deleteUser
\* Lines 182-210: the self-delete check compares strings; then
\* User.findByIdAndDelete(id), one atomic store call.  acting is req.user._id.
DeleteUser(r, acting, id) ==
    /\ Arrives(r)
    /\ req' = [req EXCEPT ![r] = [op |-> "deleteUser", id |-> id, acting |-> acting]]
    /\ LET oid == CastObjectId(id)
       IN  IF ObjectIdToString(acting) = id
           THEN /\ users' = users
                /\ Respond(r, ApiResponse(400, "propre compte", NoData))
           ELSE IF ~CanCast(id)
           THEN /\ users' = users
                /\ Respond(r, ApiResponse(500, "erreur suppression", NoData))
           ELSE IF oid \notin DOMAIN users
           THEN /\ users' = users
                /\ Respond(r, ApiResponse(404, "utilisateur non trouve", NoData))
           ELSE /\ users' = [i \in DOMAIN users \ {oid} |-> users[i]]
                /\ Respond(r, ApiResponse(200, "utilisateur supprime", NoData))
    /\ UNCHANGED <<games, nextId, clock>>


\* ----------------------------------------------------------- getAllGames
NaN == [nan |-> TRUE, n |-> 0]
Digits == {"0", "1", "2", "3", "4", "5", "6", "7", "8", "9"}
DigitValue(c) ==
    CASE c = "0" -> 0 [] c = "1" -> 1 [] c = "2" -> 2 [] c = "3" -> 3 [] c = "4" -> 4
      [] c = "5" -> 5 [] c = "6" -> 6 [] c = "7" -> 7 [] c = "8" -> 8 [] c = "9" -> 9

RECURSIVE LeadingDigits(_)
LeadingDigits(s) ==
    IF s = <<>> \/ Head(s) \notin Digits THEN <<>> ELSE <<Head(s)>> \o LeadingDigits(Tail(s))

RECURSIVE DecimalValue(_, _)
DecimalValue(ds, acc) ==
    IF ds = <<>> THEN acc ELSE DecimalValue(Tail(ds), 10 * acc + DigitValue(Head(ds)))

\* JavaScript's parseInt of a query string, a sequence of characters (empty
\* when the parameter is missing): an optional sign, then the digits up to
\* the first other character; NaN when there is no digit.
ParseInt(s) ==
    LET signed == s # <<>> /\ Head(s) \in {"-", "+"}
        ds == LeadingDigits(IF signed THEN Tail(s) ELSE s)
        v == DecimalValue(ds, 0)
    IN  IF ds = <<>> THEN NaN
        ELSE [nan |-> FALSE, n |-> IF signed /\ Head(s) = "-" THEN 0 - v ELSE v]

\* parseInt(...) || fallback: NaN and 0 are falsy.
OrDefault(v, fallback) == IF v.nan \/ v.n = 0 THEN fallback ELSE v.n

DefaultPage == 1
DefaultLimit == 10

\* Math.ceil(a / b) for b > 0.
Ceil(a, b) == (a + b - 1) \div b

\* The listings Game.find().sort({ createdAt: -1 }) can return: every order of
\* the collection with the creation times descending (equal times in any order).
SortedListings ==
    LET n == Cardinality(games)
    IN  {s \in [1..n -> games] :
            /\ \A i, j \in 1..n : i # j => s[i] # s[j]
            /\ \A i, j \in 1..n : i < j => s[i].createdAt >= s[j].createdAt}

\* A page fetch that always starts at the first game.
SkipLimitFromStart(listing, skip, limit) ==
    SubSeq(listing, 1, Min(Len(listing), limit))

\* .skip(skip).limit(limit)
SkipLimit(listing, skip, limit) ==
    SubSeq(listing, skip + 1, Min(Len(listing), skip + limit))

Null == [null |-> TRUE]

\* A populate that leaves a reference it cannot resolve in place.
PopulateKeepsReference(game) ==
    [game EXCEPT !.userId =
        IF game.userId = 0 THEN Null
        ELSE [_id |-> game.userId,
              firstName |-> IF game.userId \in DOMAIN users THEN users[game.userId].firstName ELSE "",
              lastName |-> IF game.userId \in DOMAIN users THEN users[game.userId].lastName ELSE ""]]

\* .populate('userId', 'firstName lastName'): the owner's _id, firstName and
\* lastName, or null when the reference is null or resolves to no user.
Populate(game) ==
    [game EXCEPT !.userId =
        IF game.userId \in DOMAIN users
        THEN [_id |-> game.userId,
              firstName |-> users[game.userId].firstName,
              lastName |-> users[game.userId].lastName]
        ELSE Null]

\* Lines 40-52.
FormatGame(game) ==
    [_id |-> game._id,
     user |-> IF game.userId # Null
              THEN [_id |-> game.userId._id,
                    firstName |-> game.userId.firstName,
                    lastName |-> game.userId.lastName]
              ELSE Null,
     number |-> game.number,
     result |-> game.result,
     pointsChange |-> game.pointsChange,
     newBalance |-> game.balanceAfter,
     createdAt |-> game.createdAt]

\* Lines 21-26: the query is parsed and the two reads are issued.  findSaw
\* records the size of the collection the page fetch read (history only).
GetAllGamesStart(r, pageQuery, limitQuery) ==
    /\ Arrives(r)
    /\ LET page == OrDefault(ParseInt(pageQuery), DefaultPage)
           limit == OrDefault(ParseInt(limitQuery), DefaultLimit)
       IN  req' = [req EXCEPT ![r] =
                [op |-> "getAllGames", page |-> page, limit |-> limit, skip |-> (page - 1) * limit,
                 found |-> FALSE, games |-> <<>>, findSaw |-> 0,
                 counted |-> FALSE, totalGames |-> 0, failed |-> FALSE]]
    /\ pc' = [pc EXCEPT ![r] = "reads"]
    /\ UNCHANGED <<users, games, nextId, clock, res>>

\* A catch block that answers with an empty page.
GamesErrorSwallowed(r) ==
    /\ req' = [req EXCEPT ![r].failed = TRUE]
    /\ Respond(r, ApiResponse(200, "historique recupere",
            [games |-> <<>>,
             pagination |-> [total |-> 0, page |-> req[r].page, pages |-> 0, limit |-> req[r].limit]]))

\* Lines 69-74: the catch block.
GamesError(r) ==
    /\ req' = [req EXCEPT ![r].failed = TRUE]
    /\ Respond(r, ApiResponse(500, "erreur historique", NoData))

\* Lines 27-35: the page fetch.  The store refuses a negative skip.
FindGames(r) ==
    /\ pc[r] = "reads"
    /\ ~req[r].found
    /\ IF req[r].skip < 0
       THEN GamesError(r)
       ELSE /\ \E listing \in SortedListings :
                req' = [req EXCEPT ![r].found = TRUE,
                                   ![r].findSaw = Cardinality(games),
                                   ![r].games = [i \in DOMAIN SkipLimit(listing, req[r].skip, req[r].limit) |->
                                                    Populate(SkipLimit(listing, req[r].skip, req[r].limit)[i])]]
            /\ UNCHANGED <<pc, res>>
    /\ UNCHANGED <<users, games, nextId, clock>>

\* Line 36: Game.countDocuments().
CountGames(r) ==
    /\ pc[r] = "reads"
    /\ ~req[r].counted
    /\ req' = [req EXCEPT ![r].counted = TRUE, ![r].totalGames = Cardinality(games)]
    /\ UNCHANGED <<users, games, nextId, clock, pc, res>>

\* Lines 69-74: one of the two reads is rejected by the store, and
\* Promise.all with it.
GamesReadFails(r) ==
    /\ pc[r] = "reads"
    /\ ~(req[r].found /\ req[r].counted)
    /\ GamesError(r)
    /\ UNCHANGED <<users, games, nextId, clock>>

\* Lines 40-68: both reads are in.
GetAllGamesRespond(r) ==
    /\ pc[r] = "reads"
    /\ req[r].found /\ req[r].counted
    /\ Respond(r, ApiResponse(200, "historique recupere",
            [games |-> [i \in DOMAIN req[r].games |-> FormatGame(req[r].games[i])],
             pagination |-> [total |-> req[r].totalGames,
                             page |-> req[r].page,
                             pages |-> Ceil(req[r].totalGames, req[r].limit),
                             limit |-> req[r].limit]]))
    /\ UNCHANGED <<users, games, nextId, clock, req>>

\* The game sessions record a finished round of a user, or of nobody.
InsertGame(owner) ==
    /\ Cardinality(games) < MaxGames
    /\ LET id == Cardinality(games) + 1
       IN  games' = games \cup {[_id |-> id, userId |-> owner, number |-> 10 * id, result |-> "gagne",
                                 pointsChange |-> 50, balanceAfter |-> 50 * id, createdAt |-> clock]}
    /\ UNCHANGED <<users, nextId, clock, pc, req, res>>

\* ---------------------------------------------------------------- inputs
\* The ids a request can name: of a user, in either case of the hex digits, of
\* no user, or no ObjectId at all.
IdInputs == {IdString(n, f) : n \in UserIds, f \in IdForms} \cup {MalformedId}
UpdateIds == {IdString(n, "lower") : n \in UserIds} \cup {MalformedId}

\* No body names a path both at the top level and under $set.
UpdateBodies ==
    {[firstName |-> ""], [email |-> "b@x"], [password |-> ""],
     [firstName |-> "Zed", password |-> "pw2"], [role |-> "root", createdAt |-> 0],
     ("$set" :> [password |-> "pw2"])}

CreateBodies ==
    {[firstName |-> "Bob", lastName |-> "Lee", email |-> e, phone |-> "555", password |-> "pw1"] :
        e \in {"a@x", "b@x"}}
    \cup {[firstName |-> "Bob", lastName |-> "Lee", email |-> "b@x", phone |-> "555",
           password |-> "pw1", role |-> "root"]}
    \cup {[firstName |-> "Bob", lastName |-> "Lee", phone |-> "555", password |-> "pw1"],
          [firstName |-> "Bob", lastName |-> "Lee", email |-> "b@x", phone |-> "555", password |-> ""]}

Next ==
    \/ \E r \in Requests : \E body \in CreateBodies : CreateUserFind(r, body)
    \/ \E r \in Requests : CreateUserSave(r)
    \/ \E r \in Requests : GetAllUsers(r)
    \/ \E r \in Requests : \E id \in UpdateIds : \E body \in UpdateBodies : UpdateUser(r, id, body)
    \/ \E r \in Requests : \E acting \in DOMAIN users : \E id \in IdInputs : DeleteUser(r, acting, id)

PageQueries == {<<>>, <<"0">>, <<"1">>, <<"2">>, <<"3">>, <<"-", "1">>, <<"2", "x">>}
LimitQueries == {<<>>, <<"a">>, <<"1">>, <<"2">>, <<"1", "0">>}
GameUserUpdates == {[firstName |-> "Zed"]}
GameUserIds == {ObjectIdToString(FirstPlayer._id)}

NextGames ==
    \/ \E owner \in {0} \cup DOMAIN users : InsertGame(owner)
    \/ Tick
    \/ \E r \in Requests : \E id \in GameUserIds : \E body \in GameUserUpdates : UpdateUser(r, id, body)
    \/ \E r \in Requests : \E acting \in DOMAIN users : \E id \in GameUserIds : DeleteUser(r, acting, id)
    \/ \E r \in Requests : \E p \in PageQueries : \E l \in LimitQueries : GetAllGamesStart(r, p, l)
    \/ \E r \in Requests : FindGames(r)
    \/ \E r \in Requests : CountGames(r)
    \/ \E r \in Requests : GamesReadFails(r)
    \/ \E r \in Requests : GetAllGamesRespond(r)
    \/ \E r \in Requests : NextRequest(r)

\* The account operations: createUser, getAllUsers, updateUser, deleteUser.
Spec == Init /\ [][Next]_vars

\* The game listing, next to the game sessions and the account operations
\* that change what it reads.
SpecGames == InitGames /\ [][NextGames]_vars

\* ------------------------------------------------- account properties
Done(r, op) == pc[r] = "done" /\ req[r].op = op
\* Request r is handled, from arrival to response, in this step.
Handles(r, op) == pc[r] = "new" /\ pc'[r] = "done" /\ req'[r].op = op
Resolves(id) == CanCast(id) /\ CastObjectId(id) \in DOMAIN users
ValidCreation(body) ==
    /\ \A k \in RequiredPaths : ~Falsy(body, k)
    /\ Falsy(body, "role") \/ body.role \in Roles
IsConflict(response) == response.status = 400 /\ response.message = "email existe deja"
Plaintexts == {"", "pw1", "pw2"}

\* C1: two createUser requests with the same valid body and an email the
\* store did not hold end, under every interleaving, with one 201 and one
\* Conflict (400), never a 500, and one stored user with that email.
C1_Claim ==
    \A r1 \in Requests : \A r2 \in Requests \ {r1} :
        (/\ Done(r1, "createUser") /\ Done(r2, "createUser")
         /\ ValidCreation(req[r1].body) /\ ValidCreation(req[r2].body)
         /\ req[r1].body.email = req[r2].body.email
         /\ req[r1].body.email # FirstAdmin.email
         /\ \A q \in Requests \ {r1, r2} : pc[q] = "new")
        => /\ {res[r1].status, res[r2].status} = {201, 400}
           /\ res[r1].status = 400 => IsConflict(res[r1])
           /\ res[r2].status = 400 => IsConflict(res[r2])
           /\ Cardinality({i \in DOMAIN users : users[i].email = req[r1].body.email}) = 1

\* C2: a deleteUser whose target id resolves to the acting user's record, in
\* whatever form the id is written, responds 400 and leaves the users as
\* they were.
C2_Claim ==
    [][\A r \in Requests :
        (Handles(r, "deleteUser") /\ CanCast(req'[r].id) /\ CastObjectId(req'[r].id) = req'[r].acting)
        => (res'[r].status = 400 /\ users' = users)]_vars

\* C3: an updateUser whose body has a password field, of any value, leaves
\* the target's stored credential as it was: comparePassword answers as
\* before for every candidate.
C3_Claim ==
    [][\A r \in Requests :
        (Handles(r, "updateUser") /\ Has(req'[r].body, "password") /\ Resolves(req'[r].id))
        => LET oid == CastObjectId(req'[r].id)
           IN  /\ oid \in DOMAIN users'
               /\ users'[oid].password = users[oid].password
               /\ \A p \in Plaintexts :
                    comparePassword(users[oid], p) => comparePassword(users'[oid], p)]_vars

\* C4: the stored password of every user is the output of the hashing step,
\* never a string a caller supplied.
C4_Claim == \A i \in DOMAIN users : users[i].password.hashed

\* C5: no two stored users share an email, and an updateUser that sets a
\* user's email to the one of another user responds Conflict (400) and
\* leaves the store as it was.
EmailsUnique ==
    \A i \in DOMAIN users : \A j \in DOMAIN users : users[i].email = users[j].email => i = j

C5_Claim ==
    [][/\ EmailsUnique'
       /\ \A r \in Requests :
            (/\ Handles(r, "updateUser") /\ Has(req'[r].body, "email") /\ Resolves(req'[r].id)
             /\ EmailTaken(req'[r].body.email, CastObjectId(req'[r].id)))
            => (res'[r].status = 400 /\ users' = users)]_vars

\* C8: no success response of getAllUsers, createUser or updateUser carries a
\* password field in a user object.
C8_Theorem ==
    \A r \in Requests :
        (pc[r] = "done" /\ req[r].op \in {"getAllUsers", "createUser", "updateUser"}
         /\ res[r].status \in {200, 201})
        => \A u \in res[r].data : ~Has(u, "password")

C8_Witness ==
    \E r1, r2 \in Requests :
        /\ Done(r1, "updateUser") /\ res[r1].status = 200 /\ res[r1].data # {}
        /\ Has(req[r1].body, "$set")
        /\ Done(r2, "getAllUsers") /\ res[r2].status = 200
        /\ \E u \in res[r2].data : u._id = CastObjectId(req[r1].id)

\* C9: every stored user has non-empty first name, last name, email, phone
\* and password, a role of the enum, and the creation timestamp it was
\* created with.
WellFormed(doc) ==
    /\ \A p \in RequiredPaths \ {"password"} : doc[p] # ""
    /\ doc.password.text # ""
    /\ doc.role \in Roles

C9_Claim ==
    [][\A i \in DOMAIN users' :
        /\ WellFormed(users'[i])
        /\ i \in DOMAIN users => users'[i].createdAt = users[i].createdAt]_vars

\* ------------------------------------------------- listing properties
GameOf(id) == CHOOSE g \in games : g._id = id
Dangling(owner) == owner = 0 \/ owner \notin DOMAIN users
Newer(g) == {h \in games : h.createdAt > g.createdAt}
NotOlder(g) == {h \in games : h.createdAt >= g.createdAt}
\* No game was recorded since either read of listing r (games are never removed).
NoWriteSince(r) ==
    req[r].findSaw = Cardinality(games) /\ req[r].totalGames = Cardinality(games)

\* C6: with N games and no write during the request, a listing with page >= 1
\* and limit >= 1 that the store serves responds 200 with the games at
\* positions (page-1)*limit .. (page-1)*limit + limit - 1 of the collection
\* in descending creation time, total = N, pages = ceil(N / limit), and the
\* page and limit asked for.
C6_Theorem ==
    \A r \in Requests :
        (/\ Done(r, "getAllGames") /\ ~req[r].failed
         /\ req[r].page >= 1 /\ req[r].limit >= 1
         /\ NoWriteSince(r))
        => LET N == Cardinality(games)
               page == req[r].page
               limit == req[r].limit
               out == res[r].data.games
               pagination == res[r].data.pagination
           IN  /\ res[r].status = 200
               /\ Len(out) = Min(limit, Max(0, N - (page - 1) * limit))
               /\ \A i \in 1..Len(out) :
                    /\ \E g \in games : g._id = out[i]._id
                    /\ out[i].createdAt = GameOf(out[i]._id).createdAt
                    /\ out[i].number = GameOf(out[i]._id).number
                    /\ out[i].newBalance = GameOf(out[i]._id).balanceAfter
                    /\ Cardinality(Newer(GameOf(out[i]._id))) <= (page - 1) * limit + i - 1
                    /\ (page - 1) * limit + i <= Cardinality(NotOlder(GameOf(out[i]._id)))
               /\ \A i, j \in 1..Len(out) : i < j => out[i]._id # out[j]._id
               /\ pagination.total = N
               /\ pagination.page = page
               /\ pagination.limit = limit
               /\ (pagination.pages - 1) * limit < N
               /\ N <= pagination.pages * limit

\* The second page of one game each, of two games recorded at different times.
C6_Witness ==
    \E r \in Requests :
        /\ Done(r, "getAllGames") /\ res[r].status = 200 /\ NoWriteSince(r)
        /\ req[r].page = 2 /\ req[r].limit = 1
        /\ Len(res[r].data.games) = 1
        /\ res[r].data.pagination.pages = 2
        /\ \E g \in games : g.createdAt > GameOf(res[r].data.games[1]._id).createdAt

\* C7: deleteUser removes no game; the page fetch gives every game the user
\* null exactly when its owner reference is null or resolves to no user, and
\* the _id, firstName and lastName of the owner's record otherwise; the
\* response, a 200, carries these users game by game.
C7_Theorem ==
    [][/\ \A r \in Requests : Handles(r, "deleteUser") => games' = games
       /\ \A r \in Requests :
            (pc[r] = "reads" /\ ~req[r].found /\ req'[r].found)
            => \A i \in DOMAIN req'[r].games :
                LET item == req'[r].games[i]
                    owner == GameOf(item._id).userId
                IN  /\ item.userId = Null <=> Dangling(owner)
                    /\ ~Dangling(owner) =>
                         item.userId = [_id |-> owner,
                                        firstName |-> users[owner].firstName,
                                        lastName |-> users[owner].lastName]
       /\ \A r \in Requests :
            (pc[r] = "reads" /\ pc'[r] = "done" /\ ~req'[r].failed)
            => /\ res'[r].status = 200
               /\ DOMAIN res'[r].data.games = DOMAIN req[r].games
               /\ \A i \in DOMAIN req[r].games :
                    /\ res'[r].data.games[i]._id = req[r].games[i]._id
                    /\ res'[r].data.games[i].user = req[r].games[i].userId]_vars

\* A listing with the game of a deleted user next to the game of a user.
C7_Witness ==
    \E r \in Requests :
        /\ Done(r, "getAllGames") /\ res[r].status = 200
        /\ \E i, j \in DOMAIN res[r].data.games :
            /\ res[r].data.games[i].user = Null
            /\ GameOf(res[r].data.games[i]._id).userId # 0
            /\ res[r].data.games[j].user # Null

====
